---- MODULE Spec2Model ----
(***************************************************************************)
(* The expression evaluator of Flax (src/src/interpreter.rs) over the AST  *)
(* of src/src/ast.rs.                                                      *)
(*                                                                         *)
(* Texts (String, literal text, lexemes of messages) are sequences of      *)
(* one-character strings, so that parsing and rendering are computed.      *)
(* An f64 is a record [cls, neg, num, den]: sign and magnitude num/den in  *)
(* lowest terms ("fin"), an infinity ("inf") or the NaN ("nan").  The      *)
(* numbers the operand literals denote are dyadic and small, where f64     *)
(* arithmetic is exact.                                                    *)
(***************************************************************************)
EXTENDS Integers, Sequences, FiniteSets, TLC

VARIABLES expression, stack, ret, outcome, pc

vars == <<expression, stack, ret, outcome, pc>>

(***************************************************************************)
(* Bounds of the model.                                                    *)
(***************************************************************************)
\* token lines are 1..MaxLine
MaxLine == 2
\* the enumerated literal texts have at most MaxLen characters
MaxLen == 3

(***************************************************************************)
(* f64                                                                     *)
(***************************************************************************)
RECURSIVE Gcd(_, _)
Gcd(a, b) == IF b = 0 THEN a ELSE Gcd(b, a % b)

NaN == [cls |-> "nan", neg |-> FALSE, num |-> 0, den |-> 1]

Inf(neg) == [cls |-> "inf", neg |-> neg, num |-> 1, den |-> 0]

\* the finite f64 of sign neg and magnitude num/den (den > 0)
Fin(neg, num, den) ==
    LET g == Gcd(num, den)
    IN  [cls |-> "fin", neg |-> neg, num |-> num \div g, den |-> den \div g]

\* the finite f64 of the signed rational n/den (den > 0); a zero result is +0
FromSigned(n, den) == IF n < 0 THEN Fin(TRUE, -n, den) ELSE Fin(FALSE, n, den)

Signed(x) == IF x.neg THEN -x.num ELSE x.num

IsZero(x) == x.cls = "fin" /\ x.num = 0

F64Negate(x) == IF x.cls = "nan" THEN x ELSE [x EXCEPT !.neg = ~x.neg]

\* a * b
F64Mul(a, b) ==
    LET neg == (a.neg /= b.neg)
    IN  CASE a.cls = "nan" \/ b.cls = "nan" -> NaN
          [] a.cls = "inf" \/ b.cls = "inf" ->
                IF IsZero(a) \/ IsZero(b) THEN NaN ELSE Inf(neg)
          [] OTHER -> Fin(neg, a.num * b.num, a.den * b.den)

\* a / b
F64Div(a, b) ==
    LET neg == (a.neg /= b.neg)
    IN  CASE a.cls = "nan" \/ b.cls = "nan" -> NaN
          [] a.cls = "inf" -> IF b.cls = "inf" THEN NaN ELSE Inf(neg)
          [] b.cls = "inf" -> Fin(neg, 0, 1)
          [] IsZero(b) -> IF IsZero(a) THEN NaN ELSE Inf(neg)
          [] OTHER -> Fin(neg, a.num * b.den, a.den * b.num)

\* a + b
F64Add(a, b) ==
    CASE a.cls = "nan" \/ b.cls = "nan" -> NaN
      [] a.cls = "inf" ->
            IF b.cls = "inf" /\ a.neg /= b.neg THEN NaN ELSE a
      [] b.cls = "inf" -> b
      [] OTHER ->
            LET n == Signed(a) * b.den + Signed(b) * a.den
            IN  IF n = 0 THEN Fin(a.neg /\ b.neg, 0, 1)
                         ELSE FromSigned(n, a.den * b.den)

\* a - b
F64Sub(a, b) == F64Add(a, F64Negate(b))

\* a == b on f64: a NaN equals nothing, the two zeros are equal
F64Eq(a, b) ==
    /\ a.cls /= "nan"
    /\ b.cls /= "nan"
    /\ \/ IsZero(a) /\ IsZero(b)
       \/ a = b

\* a < b on f64
F64Lt(a, b) ==
    CASE a.cls = "nan" \/ b.cls = "nan" -> FALSE
      [] a.cls = "inf" -> a.neg /\ ~(b.cls = "inf" /\ b.neg)
      [] b.cls = "inf" -> ~b.neg
      [] OTHER -> Signed(a) * b.den < Signed(b) * a.den

F64Le(a, b) == F64Lt(a, b) \/ F64Eq(a, b)

(***************************************************************************)
(* Texts                                                                   *)
(***************************************************************************)
Digits == <<"0", "1", "2", "3", "4", "5", "6", "7", "8", "9">>

IsDigit(c) == \E i \in 1..10 : Digits[i] = c

DigitVal(c) == (CHOOSE i \in 1..10 : Digits[i] = c) - 1

RECURSIVE AllDigits(_)
AllDigits(s) == s = <<>> \/ (IsDigit(Head(s)) /\ AllDigits(Tail(s)))

\* the value of a digit string read in base ten, after the digits read so far
RECURSIVE DigitsValue(_, _)
DigitsValue(s, acc) ==
    IF s = <<>> THEN acc ELSE DigitsValue(Tail(s), 10 * acc + DigitVal(Head(s)))

RECURSIVE Pow10(_)
Pow10(n) == IF n = 0 THEN 1 ELSE 10 * Pow10(n - 1)

\* ASCII lower case of the letters of "inf", "infinity" and "nan"
Lower(c) ==
    CASE c = "I" -> "i" [] c = "N" -> "n" [] c = "F" -> "f" [] c = "A" -> "a"
      [] c = "T" -> "t" [] c = "Y" -> "y" [] OTHER -> c

LowerText(s) == [i \in 1..Len(s) |-> Lower(s[i])]

\* the index of the first "." of s, or 0
DotAt(s) ==
    IF \E i \in 1..Len(s) : s[i] = "."
    THEN CHOOSE i \in 1..Len(s) : s[i] = "." /\ \A j \in 1..(i - 1) : s[j] /= "."
    ELSE 0

NoF64 == [ok |-> FALSE, val |-> NaN]

\* the unsigned part of a float text: inf, infinity, nan, or digits with at
\* most one "." and at least one digit
ParseUnsigned(s, neg) ==
    LET low == LowerText(s)
        dot == DotAt(s)
        ip  == IF dot = 0 THEN s ELSE SubSeq(s, 1, dot - 1)
        fp  == IF dot = 0 THEN <<>> ELSE SubSeq(s, dot + 1, Len(s))
    IN  CASE low = <<"i", "n", "f">> -> [ok |-> TRUE, val |-> Inf(neg)]
          [] low = <<"i", "n", "f", "i", "n", "i", "t", "y">> ->
                [ok |-> TRUE, val |-> Inf(neg)]
          [] low = <<"n", "a", "n">> -> [ok |-> TRUE, val |-> NaN]
          [] AllDigits(ip) /\ AllDigits(fp) /\ Len(ip) + Len(fp) > 0 ->
                [ok |-> TRUE,
                 val |-> Fin(neg, DigitsValue(ip \o fp, 0), Pow10(Len(fp)))]
          [] OTHER -> NoF64

\* str::parse::<f64>: an optional sign, then the unsigned part; no trimming
ParseF64(s) ==
    IF s = <<>> THEN NoF64
    ELSE IF Head(s) = "-" THEN ParseUnsigned(Tail(s), TRUE)
    ELSE IF Head(s) = "+" THEN ParseUnsigned(Tail(s), FALSE)
    ELSE ParseUnsigned(s, FALSE)

\* the decimal digits of a natural number
RECURSIVE NatText(_)
NatText(n) ==
    IF n < 10 THEN <<Digits[n + 1]>>
    ELSE NatText(n \div 10) \o <<Digits[(n % 10) + 1]>>

\* the decimal digits of the fraction r/den, 0 < r < den, which terminates
RECURSIVE FracText(_, _)
FracText(r, den) ==
    IF r = 0 THEN <<>>
    ELSE <<Digits[((10 * r) \div den) + 1]>> \o FracText((10 * r) % den, den)

\* f64's Display (to_string): no exponent, a negative zero keeps its sign
F64Text(x) ==
    LET sign == IF x.neg THEN <<"-">> ELSE <<>>
    IN  CASE x.cls = "nan" -> <<"N", "a", "N">>
          [] x.cls = "inf" -> sign \o <<"i", "n", "f">>
          [] OTHER ->
                sign \o NatText(x.num \div x.den)
                \o (IF x.num % x.den = 0 THEN <<>>
                    ELSE <<".">> \o FracText(x.num % x.den, x.den))

(***************************************************************************)
(* Runtime values, results and tokens                                      *)
(***************************************************************************)
Obj_BOOL(b) == [kind |-> "BOOL", b |-> b]

Obj_STRING(s) == [kind |-> "STRING", s |-> s]

Obj_NUMBER(n) == [kind |-> "NUMBER", n |-> n]

Obj_Nil == [kind |-> "Nil"]

\* Result::Ok
Ok(obj) == [tag |-> "Ok", obj |-> obj]

\* Result::Err
Err(e) == [tag |-> "Err", err |-> e]

\* panic!: the process aborts with the message
Panic(msg) == [tag |-> "Panic", msg |-> msg]

\* RuntimeError::new(lexeme, message, line)
RuntimeError(lexeme, message, line) ==
    [lexeme |-> lexeme, message |-> message, line |-> line]

\* format!: the format string and the rendered arguments
Format(fmt, args) == [fmt |-> fmt, args |-> args]

\* impl fmt::Display for Obj
Display(obj) ==
    CASE obj.kind = "BOOL" ->
            IF obj.b THEN <<"t", "r", "u", "e">> ELSE <<"f", "a", "l", "s", "e">>
      [] obj.kind = "Nil" -> <<"n", "i", "l">>
      [] obj.kind = "STRING" -> <<"\"">> \o obj.s \o <<"\"">>
      [] obj.kind = "NUMBER" -> F64Text(obj.n)

\* the operator tags the evaluator names
TokenTypes ==
    {"Minus", "Plus", "Star", "Slash", "PlusPlus", "EqualEqual", "BangEqual",
     "Less", "LessEqual", "Greater", "GreaterEqual", "Bang"}

LexemeOf(tt) ==
    CASE tt = "Minus" -> <<"-">>
      [] tt = "Plus" -> <<"+">>
      [] tt = "Star" -> <<"*">>
      [] tt = "Slash" -> <<"/">>
      [] tt = "PlusPlus" -> <<"+", "+">>
      [] tt = "EqualEqual" -> <<"=", "=">>
      [] tt = "BangEqual" -> <<"!", "=">>
      [] tt = "Less" -> <<"<">>
      [] tt = "LessEqual" -> <<"<", "=">>
      [] tt = "Greater" -> <<">">>
      [] tt = "GreaterEqual" -> <<">", "=">>
      [] tt = "Bang" -> <<"!">>

\* an operator token as the lexer hands it over
Token(tt, line) == [token_type |-> tt, lexeme |-> LexemeOf(tt), line |-> line]

(***************************************************************************)
(* The AST constructors (ast.rs)                                           *)
(***************************************************************************)
new_literal(val) == [kind |-> "L", val |-> val]

new_unary(op, expr) == [kind |-> "U", operator |-> op, expr |-> expr]

new_binary(left, op, right) ==
    [kind |-> "B", operator |-> op, left |-> left, right |-> right]

new_grouping(expr) == [kind |-> "G", expr |-> expr]

(***************************************************************************)
(* The operators of the evaluator (interpreter.rs)                         *)
(***************************************************************************)
\* str::parse::<bool>
ParseBool(s) ==
    CASE s = <<"t", "r", "u", "e">> -> [ok |-> TRUE, val |-> TRUE]
      [] s = <<"f", "a", "l", "s", "e">> -> [ok |-> TRUE, val |-> FALSE]
      [] OTHER -> [ok |-> FALSE, val |-> FALSE]

\* str::parse::<String> never fails
ParseString(s) == [ok |-> TRUE, val |-> s]

\* visit_literal without the "nil" arm: nil becomes a String
visit_literal_nil_as_string(literal) ==
    IF ParseF64(literal.val).ok THEN Ok(Obj_NUMBER(ParseF64(literal.val).val))
    ELSE IF ParseBool(literal.val).ok THEN Ok(Obj_BOOL(ParseBool(literal.val).val))
    ELSE Ok(Obj_STRING(literal.val))

visit_literal(literal) ==
    IF ParseF64(literal.val).ok THEN Ok(Obj_NUMBER(ParseF64(literal.val).val))
    ELSE IF ParseBool(literal.val).ok THEN Ok(Obj_BOOL(ParseBool(literal.val).val))
    ELSE IF ParseString(literal.val).ok THEN
        LET s == ParseString(literal.val).val
        IN  CASE s = <<"n", "i", "l">> -> Ok(Obj_Nil)
              [] s = <<"t", "r", "u", "e">> -> Ok(Obj_BOOL(TRUE))
              [] s = <<"f", "a", "l", "s", "e">> -> Ok(Obj_BOOL(FALSE))
              [] OTHER -> Ok(Obj_STRING(s))
    ELSE Panic("Parsing error with: Literal")

\* check_numbers reporting a division by zero as an error
check_numbers_zero_divisor_err(paris, op) ==
    LET mismatch ==
            Err(RuntimeError(op.lexeme,
                             Format("Expected Numbers for - given {} {}",
                                    <<Display(paris[1]), Display(paris[2])>>),
                             op.line))
    IN  IF paris[1].kind = "NUMBER" /\ paris[2].kind = "NUMBER" THEN
            LET left == paris[1].n
                right == paris[2].n
            IN  CASE op.token_type = "Minus" -> Ok(Obj_NUMBER(F64Sub(left, right)))
                  [] op.token_type = "Plus" -> Ok(Obj_NUMBER(F64Add(left, right)))
                  [] op.token_type = "Star" -> Ok(Obj_NUMBER(F64Mul(left, right)))
                  [] op.token_type = "Slash" ->
                        IF IsZero(right) THEN mismatch
                        ELSE Ok(Obj_NUMBER(F64Div(left, right)))
                  [] OTHER -> Panic("Error")
        ELSE mismatch

check_numbers(paris, op) ==
    IF paris[1].kind = "NUMBER" /\ paris[2].kind = "NUMBER" THEN
        LET left == paris[1].n
            right == paris[2].n
        IN  CASE op.token_type = "Minus" -> Ok(Obj_NUMBER(F64Sub(left, right)))
              [] op.token_type = "Plus" -> Ok(Obj_NUMBER(F64Add(left, right)))
              [] op.token_type = "Star" -> Ok(Obj_NUMBER(F64Mul(left, right)))
              [] op.token_type = "Slash" -> Ok(Obj_NUMBER(F64Div(left, right)))
              [] OTHER -> Panic("Error")
    ELSE Err(RuntimeError(op.lexeme,
                          Format("Expected Numbers for - given {} {}",
                                 <<Display(paris[1]), Display(paris[2])>>),
                          op.line))

concatenate_values(pairs) ==
    CASE pairs[1].kind = "STRING" /\ pairs[2].kind = "STRING" ->
            Ok(Obj_STRING(pairs[1].s \o pairs[2].s))
      [] pairs[1].kind = "STRING" /\ pairs[2].kind = "NUMBER" ->
            Ok(Obj_STRING(pairs[1].s \o F64Text(pairs[2].n)))
      [] pairs[1].kind = "NUMBER" /\ pairs[2].kind = "STRING" ->
            Ok(Obj_STRING(F64Text(pairs[1].n) \o pairs[2].s))
      [] OTHER -> Panic("Expected two strings or a string an a integer")

\* determine_equality with the default arm of == copied to !=
determine_equality_copied_default(pair, operator) ==
    CASE operator = "EqualEqual" ->
            (CASE pair[1].kind = "BOOL" /\ pair[2].kind = "BOOL" ->
                    Ok(Obj_BOOL(pair[1].b = pair[2].b))
               [] pair[1].kind = "Nil" /\ pair[2].kind = "Nil" -> Ok(Obj_BOOL(TRUE))
               [] pair[1].kind = "STRING" /\ pair[2].kind = "STRING" ->
                    Ok(Obj_BOOL(pair[1].s = pair[2].s))
               [] pair[1].kind = "NUMBER" /\ pair[2].kind = "NUMBER" ->
                    Ok(Obj_BOOL(F64Eq(pair[1].n, pair[2].n)))
               [] OTHER -> Ok(Obj_BOOL(FALSE)))
      [] operator = "BangEqual" ->
            (CASE pair[1].kind = "BOOL" /\ pair[2].kind = "BOOL" ->
                    Ok(Obj_BOOL(pair[1].b /= pair[2].b))
               [] pair[1].kind = "Nil" /\ pair[2].kind = "Nil" -> Ok(Obj_BOOL(FALSE))
               [] pair[1].kind = "STRING" /\ pair[2].kind = "STRING" ->
                    Ok(Obj_BOOL(pair[1].s /= pair[2].s))
               [] pair[1].kind = "NUMBER" /\ pair[2].kind = "NUMBER" ->
                    Ok(Obj_BOOL(~F64Eq(pair[1].n, pair[2].n)))
               [] OTHER -> Ok(Obj_BOOL(FALSE)))
      [] OTHER -> Panic("Invalid token type. Expected '==' or '!='.")

\* determine_equality without the (Nil, Nil) arms
determine_equality_no_nil_arm(pair, operator) ==
    CASE operator = "EqualEqual" ->
            (CASE pair[1].kind = "BOOL" /\ pair[2].kind = "BOOL" ->
                    Ok(Obj_BOOL(pair[1].b = pair[2].b))
               [] pair[1].kind = "STRING" /\ pair[2].kind = "STRING" ->
                    Ok(Obj_BOOL(pair[1].s = pair[2].s))
               [] pair[1].kind = "NUMBER" /\ pair[2].kind = "NUMBER" ->
                    Ok(Obj_BOOL(F64Eq(pair[1].n, pair[2].n)))
               [] OTHER -> Ok(Obj_BOOL(FALSE)))
      [] operator = "BangEqual" ->
            (CASE pair[1].kind = "BOOL" /\ pair[2].kind = "BOOL" ->
                    Ok(Obj_BOOL(pair[1].b /= pair[2].b))
               [] pair[1].kind = "STRING" /\ pair[2].kind = "STRING" ->
                    Ok(Obj_BOOL(pair[1].s /= pair[2].s))
               [] pair[1].kind = "NUMBER" /\ pair[2].kind = "NUMBER" ->
                    Ok(Obj_BOOL(~F64Eq(pair[1].n, pair[2].n)))
               [] OTHER -> Ok(Obj_BOOL(TRUE)))
      [] OTHER -> Panic("Invalid token type. Expected '==' or '!='.")

determine_equality(pair, operator) ==
    CASE operator = "EqualEqual" ->
            (CASE pair[1].kind = "BOOL" /\ pair[2].kind = "BOOL" ->
                    Ok(Obj_BOOL(pair[1].b = pair[2].b))
               [] pair[1].kind = "Nil" /\ pair[2].kind = "Nil" -> Ok(Obj_BOOL(TRUE))
               [] pair[1].kind = "STRING" /\ pair[2].kind = "STRING" ->
                    Ok(Obj_BOOL(pair[1].s = pair[2].s))
               [] pair[1].kind = "NUMBER" /\ pair[2].kind = "NUMBER" ->
                    Ok(Obj_BOOL(F64Eq(pair[1].n, pair[2].n)))
               [] OTHER -> Ok(Obj_BOOL(FALSE)))
      [] operator = "BangEqual" ->
            (CASE pair[1].kind = "BOOL" /\ pair[2].kind = "BOOL" ->
                    Ok(Obj_BOOL(pair[1].b /= pair[2].b))
               [] pair[1].kind = "Nil" /\ pair[2].kind = "Nil" -> Ok(Obj_BOOL(FALSE))
               [] pair[1].kind = "STRING" /\ pair[2].kind = "STRING" ->
                    Ok(Obj_BOOL(pair[1].s /= pair[2].s))
               [] pair[1].kind = "NUMBER" /\ pair[2].kind = "NUMBER" ->
                    Ok(Obj_BOOL(~F64Eq(pair[1].n, pair[2].n)))
               [] OTHER -> Ok(Obj_BOOL(TRUE)))
      [] OTHER -> Panic("Invalid token type. Expected '==' or '!='.")

determine_int_comparison(pair, operator) ==
    IF pair[1].kind = "NUMBER" /\ pair[2].kind = "NUMBER" THEN
        LET val == pair[1].n
            val2 == pair[2].n
        IN  CASE operator = "Less" -> Ok(Obj_BOOL(F64Lt(val, val2)))
              [] operator = "LessEqual" -> Ok(Obj_BOOL(F64Le(val, val2)))
              [] operator = "Greater" -> Ok(Obj_BOOL(F64Lt(val2, val)))
              [] operator = "GreaterEqual" -> Ok(Obj_BOOL(F64Le(val2, val)))
              [] OTHER -> Panic("Expected boolean values")
    ELSE Panic("Expected integer values")

\* is_truthy with the number zero falsy as well
is_truthy_zero_falsy(value) ==
    CASE value.kind = "BOOL" /\ value.b = FALSE -> FALSE
      [] value.kind = "Nil" -> FALSE
      [] value.kind = "NUMBER" /\ IsZero(value.n) -> FALSE
      [] OTHER -> TRUE

is_truthy(value) ==
    CASE value.kind = "BOOL" /\ value.b = FALSE -> FALSE
      [] value.kind = "Nil" -> FALSE
      [] OTHER -> TRUE

\* visit_binary's match on the operator, the operands evaluated
ApplyBinary(operator, left, right) ==
    CASE operator.token_type \in {"Minus", "Plus", "Star", "Slash"} ->
            check_numbers(<<left, right>>, operator)
      [] operator.token_type = "PlusPlus" -> concatenate_values(<<left, right>>)
      [] operator.token_type \in {"EqualEqual", "BangEqual"} ->
            determine_equality(<<left, right>>, operator.token_type)
      [] operator.token_type \in {"Less", "LessEqual", "Greater", "GreaterEqual"} ->
            determine_int_comparison(<<left, right>>, operator.token_type)
      [] OTHER ->
            Err(RuntimeError(operator.lexeme,
                             Format("Expeceted expression, given {}",
                                    <<operator.lexeme>>),
                             operator.line))

\* visit_unary's match on the operator, the operand evaluated
ApplyUnary(operator, expr) ==
    CASE operator.token_type = "Minus" ->
            IF expr.kind = "NUMBER"
            THEN Ok(Obj_NUMBER(F64Mul(Fin(TRUE, 1, 1), expr.n)))
            ELSE Panic("Invalid unary expression.  Expected Number")
      [] operator.token_type = "Bang" -> Ok(Obj_BOOL(~is_truthy(expr)))
      [] OTHER -> Panic("Invalid token for Unary")

(***************************************************************************)
(* The evaluation of a whole tree, as the recursion of the visitors has    *)
(* it: a callee's Err is handed on unchanged, a panic ends everything.     *)
(***************************************************************************)
RECURSIVE evaluate(_)

visit_grouping(grouping) == evaluate(grouping.expr)

visit_unary(urnary) ==
    LET expr == evaluate(urnary.expr)
    IN  IF expr.tag /= "Ok" THEN expr ELSE ApplyUnary(urnary.operator, expr.obj)

visit_binary(binary) ==
    LET right == evaluate(binary.right)
    IN  IF right.tag /= "Ok" THEN right
        ELSE LET left == evaluate(binary.left)
             IN  IF left.tag /= "Ok" THEN left
                 ELSE ApplyBinary(binary.operator, left.obj, right.obj)

\* the evaluate! macro: accept dispatches on the node
evaluate(e) ==
    CASE e.kind = "L" -> visit_literal(e)
      [] e.kind = "B" -> visit_binary(e)
      [] e.kind = "U" -> visit_unary(e)
      [] e.kind = "G" -> visit_grouping(e)

interpret_ast(e) ==
    CASE e.kind = "B" -> visit_binary(e)
      [] e.kind = "G" -> visit_grouping(e)
      [] e.kind = "L" -> visit_literal(e)
      [] e.kind = "U" -> visit_unary(e)

(***************************************************************************)
(* The trees handed to the evaluator                                       *)
(***************************************************************************)
Lines == 1..MaxLine

\* every text of at most MaxLen characters over these characters
Alphabet == {"0", "1", "-", ".", "a"}

AlphabetTexts == UNION {[1..k -> Alphabet] : k \in 0..MaxLen}

\* the texts of the operand literals: numbers, booleans, nil and strings
LeafTexts ==
    {<<"1">>, <<"0">>, <<"2">>, <<"-", "1">>, <<"0", ".", "5">>, <<"-", "0">>,
     <<"N", "a", "N">>, <<"i", "n", "f">>, <<"-", "i", "n", "f">>,
     <<"t", "r", "u", "e">>, <<"f", "a", "l", "s", "e">>, <<"n", "i", "l">>,
     <<"a">>, <<>>, <<"1", "a">>}

\* further texts a literal alone is evaluated on
WordTexts ==
    {<<"+", "1">>, <<"1", ".">>, <<".", "5">>, <<"+", "i", "n", "f">>,
     <<"T", "r", "u", "e">>, <<"N", "i", "l">>, <<"t", "r", "u", "e", " ">>,
     <<" ", "1">>, <<"n", "i", "l", "l">>}

LiteralExprs == {new_literal(t) : t \in AlphabetTexts \cup LeafTexts \cup WordTexts}

Leaves == {new_literal(t) : t \in LeafTexts}

\* one operator over operand literals, every operator tag on every line
ShallowExprs ==
    {new_grouping(e) : e \in Leaves}
    \cup {new_unary(Token(tt, l), e) : tt \in TokenTypes, l \in Lines, e \in Leaves}
    \cup {new_binary(x, Token(tt, l), y) :
            tt \in TokenTypes, l \in Lines, x \in Leaves, y \in Leaves}

\* the operands of the nested trees: a literal, or one operator over literals
NestedLeaves == {new_literal(<<"1">>), new_literal(<<"a">>)}

\* the operator tags of the operands: one for each arm of the two matches
OperandUnaryTypes == {"Minus", "Bang", "Plus"}

OperandBinaryTypes == {"Plus", "PlusPlus", "EqualEqual", "Less", "Bang"}

Operands ==
    NestedLeaves
    \cup {new_grouping(e) : e \in NestedLeaves}
    \cup {new_unary(Token(tt, 1), e) : tt \in OperandUnaryTypes, e \in NestedLeaves}
    \cup {new_binary(x, Token(tt, 1), y) :
            tt \in OperandBinaryTypes, x \in NestedLeaves, y \in NestedLeaves}

\* one operator over operands that are themselves operator nodes
NestedExprs ==
    {new_grouping(e) : e \in Operands}
    \cup {new_unary(Token(tt, l), e) :
            tt \in OperandUnaryTypes, l \in Lines, e \in Operands}
    \cup {new_binary(x, Token(tt, l), y) :
            tt \in TokenTypes, l \in Lines, x \in Operands, y \in Operands}

Exprs == LiteralExprs \cup ShallowExprs \cup NestedExprs

(***************************************************************************)
(* The evaluator as a machine: the stack of visitor calls                  *)
(***************************************************************************)
NoObj == [kind |-> "none"]

NoResult == [tag |-> "None"]

\* a visitor call on a node: pos is "enter", or the operand being evaluated
Frame(e) == [node |-> e, pos |-> "enter", right |-> NoObj]

Top == stack[Len(stack)]

Pop == SubSeq(stack, 1, Len(stack) - 1)

\* the top call moves to pos (recording its right operand) and calls callee
Call(pos, right, callee) ==
    Append([stack EXCEPT ![Len(stack)] = [@ EXCEPT !.pos = pos, !.right = right]],
           Frame(callee))

Running == pc = "running" /\ stack /= <<>>

Init ==
    /\ expression \in Exprs
    /\ stack = <<>>
    /\ ret = NoResult
    /\ outcome = NoResult
    /\ pc = "start"

\* interpret_ast: dispatch on the root
InterpretAst ==
    /\ pc = "start"
    /\ stack' = <<Frame(expression)>>
    /\ pc' = "running"
    /\ UNCHANGED <<expression, ret, outcome>>

VisitLiteral ==
    /\ Running
    /\ Top.node.kind = "L"
    /\ ret = NoResult
    /\ ret' = visit_literal(Top.node)
    /\ stack' = Pop
    /\ UNCHANGED <<expression, outcome, pc>>

\* visit_grouping: evaluate the inner expression
VisitGrouping ==
    /\ Running
    /\ Top.node.kind = "G"
    /\ Top.pos = "enter"
    /\ stack' = Call("expr", NoObj, Top.node.expr)
    /\ UNCHANGED <<expression, ret, outcome, pc>>

\* visit_grouping: the inner result is the result
VisitGroupingReturn ==
    /\ Running
    /\ Top.node.kind = "G"
    /\ Top.pos = "expr"
    /\ ret.tag \in {"Ok", "Err"}
    /\ stack' = Pop
    /\ UNCHANGED <<expression, ret, outcome, pc>>

\* visit_unary: evaluate the operand
VisitUnary ==
    /\ Running
    /\ Top.node.kind = "U"
    /\ Top.pos = "enter"
    /\ stack' = Call("expr", NoObj, Top.node.expr)
    /\ UNCHANGED <<expression, ret, outcome, pc>>

\* visit_unary: the match on the operator
VisitUnaryApply ==
    /\ Running
    /\ Top.node.kind = "U"
    /\ Top.pos = "expr"
    /\ ret.tag = "Ok"
    /\ ret' = ApplyUnary(Top.node.operator, ret.obj)
    /\ stack' = Pop
    /\ UNCHANGED <<expression, outcome, pc>>

\* visit_binary: the first evaluate!, of binary.right
VisitBinary ==
    /\ Running
    /\ Top.node.kind = "B"
    /\ Top.pos = "enter"
    /\ stack' = Call("right", NoObj, Top.node.right)
    /\ UNCHANGED <<expression, ret, outcome, pc>>

\* visit_binary: right is bound, the second evaluate!, of binary.left
VisitBinaryLeft ==
    /\ Running
    /\ Top.node.kind = "B"
    /\ Top.pos = "right"
    /\ ret.tag = "Ok"
    /\ stack' = Call("left", ret.obj, Top.node.left)
    /\ ret' = NoResult
    /\ UNCHANGED <<expression, outcome, pc>>

\* VisitBinaryApply with the operands handed to the operator swapped
VisitBinaryApplySwapped ==
    /\ Running
    /\ Top.node.kind = "B"
    /\ Top.pos = "left"
    /\ ret.tag = "Ok"
    /\ ret' = ApplyBinary(Top.node.operator, Top.right, ret.obj)
    /\ stack' = Pop
    /\ UNCHANGED <<expression, outcome, pc>>

\* visit_binary: left is bound, the match on the operator
VisitBinaryApply ==
    /\ Running
    /\ Top.node.kind = "B"
    /\ Top.pos = "left"
    /\ ret.tag = "Ok"
    /\ ret' = ApplyBinary(Top.node.operator, ret.obj, Top.right)
    /\ stack' = Pop
    /\ UNCHANGED <<expression, outcome, pc>>

\* an operand's Err is the result of the unary or binary visitor
Propagate ==
    /\ Running
    /\ Top.node.kind \in {"U", "B"}
    /\ Top.pos /= "enter"
    /\ ret.tag = "Err"
    /\ stack' = Pop
    /\ UNCHANGED <<expression, ret, outcome, pc>>

\* a panic ends the process, whatever calls are open
Abort ==
    /\ pc = "running"
    /\ ret.tag = "Panic"
    /\ outcome' = ret
    /\ stack' = <<>>
    /\ pc' = "aborted"
    /\ UNCHANGED <<expression, ret>>

\* interpret_ast returns to its caller
Return ==
    /\ pc = "running"
    /\ stack = <<>>
    /\ ret.tag \in {"Ok", "Err"}
    /\ outcome' = ret
    /\ pc' = "done"
    /\ UNCHANGED <<expression, stack, ret>>

Next ==
    \/ InterpretAst
    \/ VisitLiteral
    \/ VisitGrouping
    \/ VisitGroupingReturn
    \/ VisitUnary
    \/ VisitUnaryApply
    \/ VisitBinary
    \/ VisitBinaryLeft
    \/ VisitBinaryApply
    \/ Propagate
    \/ Abort
    \/ Return

Spec == Init /\ [][Next]_vars

\* the machine ends with what the recursion of the visitors computes
MachineAgrees == pc \in {"done", "aborted"} => outcome = interpret_ast(expression)

(***************************************************************************)
(* What the claims speak of                                                *)
(***************************************************************************)
Finished == pc \in {"done", "aborted"}

IsOk(e) == evaluate(e).tag = "Ok"

ValueOf(e) == evaluate(e).obj

\* the root is a binary node whose operands both have values
BinaryRoot == expression.kind = "B" /\ IsOk(expression.left) /\ IsOk(expression.right)

\* the root is a unary node whose operand has a value
UnaryRoot == expression.kind = "U" /\ IsOk(expression.expr)

LeftValue == ValueOf(expression.left)

RightValue == ValueOf(expression.right)

BothNumbers == LeftValue.kind = "NUMBER" /\ RightValue.kind = "NUMBER"

ArithmeticTypes == {"Minus", "Plus", "Star", "Slash"}

OrderingTypes == {"Less", "LessEqual", "Greater", "GreaterEqual"}

EqualityTypes == {"EqualEqual", "BangEqual"}

BinaryTypes == ArithmeticTypes \cup OrderingTypes \cup EqualityTypes \cup {"PlusPlus"}

\* o is a RuntimeError carrying the lexeme and the line of the operator
IsErrorOf(o, operator) ==
    /\ o.tag = "Err"
    /\ o.err.lexeme = operator.lexeme
    /\ o.err.line = operator.line

TrueText == <<"t", "r", "u", "e">>

FalseText == <<"f", "a", "l", "s", "e">>

NilText == <<"n", "i", "l">>

\* C1: every type mismatch (unary - on a non-Number, an ordering comparison
\* or an arithmetic operator on a pair that is not (Number, Number)) ends
\* in an Err result, never in an abort.
C1_MismatchIsReported ==
    Finished =>
        /\ (UnaryRoot /\ expression.operator.token_type = "Minus"
                /\ ValueOf(expression.expr).kind /= "NUMBER")
            => outcome.tag = "Err"
        /\ (BinaryRoot /\ ~BothNumbers
                /\ expression.operator.token_type \in ArithmeticTypes \cup OrderingTypes)
            => outcome.tag = "Err"

\* the value the classification order gives a literal text
Classified(t) ==
    IF ParseF64(t).ok THEN Obj_NUMBER(ParseF64(t).val)
    ELSE IF t = TrueText THEN Obj_BOOL(TRUE)
    ELSE IF t = FalseText THEN Obj_BOOL(FALSE)
    ELSE IF t = NilText THEN Obj_Nil
    ELSE Obj_STRING(t)

\* C2: a literal evaluates to the Number its text parses to, else to the
\* Bool of "true"/"false", else to Nil for "nil", else to the String of its
\* text, and never fails.
C2_LiteralClassification ==
    (Finished /\ expression.kind = "L") => outcome = Ok(Classified(expression.val))

C2_Witness ==
    /\ pc = "done"
    /\ expression = new_literal(NilText)
    /\ outcome = Ok(Obj_Nil)

Arithmetic(tt, a, b) ==
    CASE tt = "Minus" -> F64Sub(a, b)
      [] tt = "Plus" -> F64Add(a, b)
      [] tt = "Star" -> F64Mul(a, b)
      [] tt = "Slash" -> F64Div(a, b)

\* C3: an arithmetic operator on (Number(a), Number(b)) yields
\* Ok(Number(a op b)), a division by zero included; on every other pair it
\* yields a RuntimeError carrying the operator's lexeme and line.
C3_ArithmeticErrorIffNotNumbers ==
    (Finished /\ BinaryRoot /\ expression.operator.token_type \in ArithmeticTypes) =>
        IF BothNumbers
        THEN outcome = Ok(Obj_NUMBER(Arithmetic(expression.operator.token_type,
                                                LeftValue.n, RightValue.n)))
        ELSE IsErrorOf(outcome, expression.operator)

C3_Witness ==
    /\ pc = "done"
    /\ BinaryRoot
    /\ expression.operator.token_type = "Slash"
    /\ BothNumbers
    /\ LeftValue.n = Fin(FALSE, 1, 1)
    /\ IsZero(RightValue.n)
    /\ outcome = Ok(Obj_NUMBER(Inf(RightValue.n.neg)))

\* equality by value: the kinds agree and the values do
SameValue(a, b) ==
    /\ a.kind = b.kind
    /\ IF a.kind = "NUMBER" THEN F64Eq(a.n, b.n) ELSE a = b

\* C4: == and != yield a Bool for every pair of values: false and true for
\* a pair of two kinds, the comparison by value for a pair of one kind.
C4_EqualityTotal ==
    (Finished /\ BinaryRoot /\ expression.operator.token_type \in EqualityTypes) =>
        outcome = Ok(Obj_BOOL(IF expression.operator.token_type = "EqualEqual"
                              THEN SameValue(LeftValue, RightValue)
                              ELSE ~SameValue(LeftValue, RightValue)))

C4_Witness ==
    /\ pc = "done"
    /\ BinaryRoot
    /\ expression.operator.token_type = "BangEqual"
    /\ LeftValue.kind = "NUMBER"
    /\ RightValue.kind = "STRING"
    /\ outcome = Ok(Obj_BOOL(TRUE))

\* the text ++ appends for an operand
Rendered(v) == IF v.kind = "STRING" THEN v.s ELSE F64Text(v.n)

Concatenable ==
    <<LeftValue.kind, RightValue.kind>>
        \in {<<"STRING", "STRING">>, <<"STRING", "NUMBER">>, <<"NUMBER", "STRING">>}

\* C5: ++ yields the String of the left operand's text followed by the
\* right operand's for (String, String), (String, Number) and
\* (Number, String), and a structured error for every other pair.
C5_ConcatenationOrError ==
    (Finished /\ BinaryRoot /\ expression.operator.token_type = "PlusPlus") =>
        IF Concatenable
        THEN outcome = Ok(Obj_STRING(Rendered(LeftValue) \o Rendered(RightValue)))
        ELSE outcome.tag = "Err"

\* C6: !v is Bool(true) for v Bool(false) or Nil and Bool(false) for every
\* other value, and never fails.
C6_NotIsTotal ==
    (Finished /\ UnaryRoot /\ expression.operator.token_type = "Bang") =>
        outcome = Ok(Obj_BOOL(ValueOf(expression.expr) \in {Obj_BOOL(FALSE), Obj_Nil}))

C6_Witness ==
    /\ pc = "done"
    /\ UnaryRoot
    /\ expression.operator.token_type = "Bang"
    /\ ValueOf(expression.expr) = Obj_NUMBER(Fin(FALSE, 0, 1))
    /\ outcome = Ok(Obj_BOOL(FALSE))

\* C7: a binary node whose operator is none of the eleven binary operators,
\* and a unary node whose operator is neither - nor !, yield a RuntimeError
\* carrying the operator's lexeme and line.
C7_UnsupportedOperatorIsReported ==
    Finished =>
        /\ (BinaryRoot /\ expression.operator.token_type \notin BinaryTypes)
            => IsErrorOf(outcome, expression.operator)
        /\ (UnaryRoot /\ expression.operator.token_type \notin {"Minus", "Bang"})
            => IsErrorOf(outcome, expression.operator)

\* the evaluation that takes the left operand of a binary node first
RECURSIVE LeftFirst(_)
LeftFirst(e) ==
    CASE e.kind = "L" -> visit_literal(e)
      [] e.kind = "G" -> LeftFirst(e.expr)
      [] e.kind = "U" ->
            LET expr == LeftFirst(e.expr)
            IN  IF expr.tag /= "Ok" THEN expr ELSE ApplyUnary(e.operator, expr.obj)
      [] e.kind = "B" ->
            LET left == LeftFirst(e.left)
            IN  IF left.tag /= "Ok" THEN left
                ELSE LET right == LeftFirst(e.right)
                     IN  IF right.tag /= "Ok" THEN right
                         ELSE ApplyBinary(e.operator, left.obj, right.obj)

\* some binary node of e has two failing operands
RECURSIVE BothOperandsFail(_)
BothOperandsFail(e) ==
    CASE e.kind = "L" -> FALSE
      [] e.kind \in {"G", "U"} -> BothOperandsFail(e.expr)
      [] e.kind = "B" ->
            \/ ~IsOk(e.left) /\ ~IsOk(e.right)
            \/ BothOperandsFail(e.left)
            \/ BothOperandsFail(e.right)

\* what a caller can tell of an outcome: the Obj, the lexeme and line of
\* the error, or the abort
Observed(o) ==
    CASE o.tag = "Ok" -> <<"Ok", o.obj>>
      [] o.tag = "Err" -> <<"Err", o.err.lexeme, o.err.line>>
      [] o.tag = "Panic" -> <<"Panic">>

IsNaN(v) == v.kind = "NUMBER" /\ v.n.cls = "nan"

\* C9 as stated: v == v is Bool(true) and v != v is Bool(false) for every
\* value v.
C9_EqualityReflexive ==
    (Finished /\ BinaryRoot /\ expression.operator.token_type \in EqualityTypes
        /\ LeftValue = RightValue)
    => outcome = Ok(Obj_BOOL(expression.operator.token_type = "EqualEqual"))

\* C9 as amended: v == v is Bool(true) and v != v is Bool(false) for every
\* value v other than the Number NaN.
C9_EqualityReflexiveButNaN ==
    (Finished /\ BinaryRoot /\ expression.operator.token_type \in EqualityTypes
        /\ LeftValue = RightValue /\ ~IsNaN(LeftValue))
    => outcome = Ok(Obj_BOOL(expression.operator.token_type = "EqualEqual"))

C9_Witness ==
    /\ pc = "done"
    /\ BinaryRoot
    /\ expression.operator.token_type = "EqualEqual"
    /\ LeftValue = Obj_Nil
    /\ RightValue = Obj_Nil
    /\ outcome = Ok(Obj_BOOL(TRUE))

\* C10: while the left operand of a binary node is being evaluated, its
\* right operand has not been evaluated yet (left is evaluated first).
C10_LeftBeforeRight ==
    \A i \in 1..Len(stack) :
        (stack[i].node.kind = "B" /\ stack[i].pos = "left") => stack[i].right = NoObj
====
